---- MODULE Spec2Model ----
(***************************************************************************)
(* Lumenitos smart-account contracts.                                      *)
(*                                                                         *)
(*   contracts/account_factory  AccountFactory: stores the simple_account  *)
(*       WASM hash and deploys account instances at the address the host   *)
(*       derives from (factory address, owner key as salt).                *)
(*   contracts/simple_account   SimpleAccount: stores one ed25519 owner    *)
(*       key and authorizes by verifying a signature against it.           *)
(*                                                                         *)
(* Every contract invocation is one atomic step: a panic rolls back every  *)
(* write of the invocation, so a trapping call leaves the ledger as it     *)
(* was.  The host primitives the contracts call (instance storage, the     *)
(* deployer, ed25519_verify) are modelled by what the contracts rely on.   *)
(***************************************************************************)
EXTENDS Integers, FiniteSets, Sequences, TLC

\* ---------------------------------------------------------------- bounds
NumKeys == 2
NumBlueprints == 2
NumPayloads == 2
NumContexts == 2
NumCallers == 2
MaxCount == 2

Keys == 1..NumKeys                \* BytesN<32> ed25519 public keys
Blueprints == 1..NumBlueprints    \* BytesN<32> WASM hashes
Payloads == 1..NumPayloads        \* BytesN<32> signature payloads
Contexts == 1..NumContexts        \* Vec<Context> values
Callers == 1..NumCallers          \* who submits the invocation

VARIABLES
    factory,      \* instance storage of the AccountFactory contract
    contracts,    \* ledger: address -> [wasm, storage] of account instances
    last,         \* the last invocation, its arguments and its outcome
    returned,     \* per key, the addresses get_address has returned so far
    deployments   \* per key, the number of create calls that succeeded

vars == <<factory, contracts, last, returned, deployments>>

\* ------------------------------------------------- host: instance storage
EmptyStorage == [x \in {} |-> TRUE]

StorageHas(s, key) == key \in DOMAIN s

StorageGet(s, key) == s[key]

StorageSet(s, key, val) ==
    [x \in (DOMAIN s) \cup {key} |-> IF x = key THEN val ELSE s[x]]

\* ------------------------------------------------------ host: signatures
\* A BytesN<64> value is the signature some key produced over some payload,
\* possibly with bits altered afterwards.
Signatures == [signer : Keys, msg : Payloads, altered : BOOLEAN]

sign(k, p) == [signer |-> k, msg |-> p, altered |-> FALSE]

\* env.crypto().ed25519_verify(public_key, message, signature): TRUE when it
\* returns, FALSE when it traps.
ed25519_verify(public_key, message, signature) ==
    /\ signature.signer = public_key
    /\ signature.msg = message
    /\ ~signature.altered

\* -------------------------------------------------------- host: deployer
FactoryId == "factory"
OtherDeployer == "other"

\* Variant: the derivation drops the low bit of the salt.
deployed_address_truncated(deployer, salt) ==
    [deployer |-> deployer, salt |-> (salt + 1) \div 2]

\* The contract address is the hash of (deployer address, salt); the
\* preimage stands for the hash.
deployed_address(deployer, salt) == [deployer |-> deployer, salt |-> salt]

\* An account instance deployed directly, not through the factory.
StandaloneAddr == deployed_address(OtherDeployer, 1)

Addresses ==
    {deployed_address(FactoryId, k) : k \in Keys} \cup {StandaloneAddr}

\* Outcome of an invocation on one contract: the instance storage it leaves
\* (a trap leaves the storage it found).
Ok(st) == [ok |-> TRUE, err |-> "", storage |-> st]

Trap(msg, st) == [ok |-> FALSE, err |-> msg, storage |-> st]

\* ---------------------------------------------------------- SimpleAccount
\* Variant: the re-initialization guard is missing.
SimpleAccount_constructor_unguarded(storage, public_key) ==
    Ok(StorageSet(storage, "Owner", public_key))

SimpleAccount_constructor(storage, public_key) ==
    IF StorageHas(storage, "Owner")
    THEN Trap("owner is already set", storage)
    ELSE Ok(StorageSet(storage, "Owner", public_key))

\* Variant: the signature is verified under the key that produced it
\* instead of the stored owner.
check_auth_any_key(storage, signature_payload, signature, auth_context) ==
    IF ~StorageHas(storage, "Owner")
    THEN Trap("unwrap on None", storage)
    ELSE IF ed25519_verify(signature.signer, signature_payload, signature)
         THEN Ok(storage)
         ELSE Trap("ed25519_verify failed", storage)

\* Variant: the verdict also depends on the invocation context.
check_auth_scoped(storage, signature_payload, signature, auth_context) ==
    IF ~StorageHas(storage, "Owner")
    THEN Trap("unwrap on None", storage)
    ELSE IF /\ auth_context = 1
            /\ ed25519_verify(StorageGet(storage, "Owner"),
                              signature_payload, signature)
         THEN Ok(storage)
         ELSE Trap("ed25519_verify failed", storage)

\* Variant: a missing owner skips verification instead of trapping.
check_auth_default_owner(storage, signature_payload, signature, auth_context) ==
    IF ~StorageHas(storage, "Owner")
    THEN Ok(storage)
    ELSE IF ed25519_verify(StorageGet(storage, "Owner"), signature_payload,
                           signature)
         THEN Ok(storage)
         ELSE Trap("ed25519_verify failed", storage)

\* Variant: an accepted signature by another key rotates the owner.
check_auth_rotating(storage, signature_payload, signature, auth_context) ==
    IF ~StorageHas(storage, "Owner")
    THEN Trap("unwrap on None", storage)
    ELSE IF ed25519_verify(signature.signer, signature_payload, signature)
         THEN Ok(StorageSet(storage, "Owner", signature.signer))
         ELSE Trap("ed25519_verify failed", storage)

SimpleAccount_check_auth(storage, signature_payload, signature, auth_context) ==
    IF ~StorageHas(storage, "Owner")
    THEN Trap("unwrap on None", storage)
    ELSE IF ed25519_verify(StorageGet(storage, "Owner"), signature_payload,
                           signature)
         THEN Ok(storage)
         ELSE Trap("ed25519_verify failed", storage)

\* -------------------------------------------------------- host: deploy_v2
\* Traps if a contract exists at the derived address; otherwise creates the
\* instance and runs its constructor in the same invocation, so a trapping
\* constructor leaves no instance behind.
\* Variant: no check that the derived address is free.
deploy_v2_unchecked(ledger, deployer, salt, wasm_hash, constructor_arg) ==
    LET addr == deployed_address(deployer, salt)
        init == SimpleAccount_constructor(EmptyStorage, constructor_arg)
    IN  [ok |-> TRUE, err |-> "",
         ledger |-> [a \in (DOMAIN ledger) \cup {addr} |->
                       IF a = addr
                       THEN [wasm |-> wasm_hash, storage |-> init.storage]
                       ELSE ledger[a]],
         address |-> addr]

deploy_v2(ledger, deployer, salt, wasm_hash, constructor_arg) ==
    LET addr == deployed_address(deployer, salt)
        init == SimpleAccount_constructor(EmptyStorage, constructor_arg)
    IN  IF addr \in DOMAIN ledger
        THEN [ok |-> FALSE, err |-> "contract already exists",
              ledger |-> ledger, address |-> addr]
        ELSE IF ~init.ok
        THEN [ok |-> FALSE, err |-> init.err,
              ledger |-> ledger, address |-> addr]
        ELSE [ok |-> TRUE, err |-> "",
              ledger |-> [a \in (DOMAIN ledger) \cup {addr} |->
                            IF a = addr
                            THEN [wasm |-> wasm_hash, storage |-> init.storage]
                            ELSE ledger[a]],
              address |-> addr]

\* --------------------------------------------------------- AccountFactory
\* Variant: the constructor keeps a blueprint that is already stored.
AccountFactory_constructor_keep_first(storage, wasm_hash) ==
    IF StorageHas(storage, "wasm")
    THEN Ok(storage)
    ELSE Ok(StorageSet(storage, "wasm", wasm_hash))

AccountFactory_constructor(storage, wasm_hash) ==
    Ok(StorageSet(storage, "wasm", wasm_hash))

\* Variant: an occupied address is returned as a silent no-op.
create_idempotent(invoker, storage, ledger, owner_bytes) ==
    IF ~StorageHas(storage, "wasm")
    THEN [ok |-> FALSE, err |-> "wasm_hash not set", ledger |-> ledger,
          ret |-> {}]
    ELSE LET d == deploy_v2(ledger, FactoryId, owner_bytes,
                            StorageGet(storage, "wasm"), owner_bytes)
         IN  [ok |-> TRUE, err |-> "", ledger |-> d.ledger,
              ret |-> {d.address}]

\* Variant: only the first caller may deploy.
create_restricted(invoker, storage, ledger, owner_bytes) ==
    IF ~StorageHas(storage, "wasm")
    THEN [ok |-> FALSE, err |-> "wasm_hash not set", ledger |-> ledger,
          ret |-> {}]
    ELSE IF invoker # 1
    THEN [ok |-> FALSE, err |-> "unauthorized", ledger |-> ledger,
          ret |-> {}]
    ELSE LET d == deploy_v2(ledger, FactoryId, owner_bytes,
                            StorageGet(storage, "wasm"), owner_bytes)
         IN  [ok |-> d.ok, err |-> d.err, ledger |-> d.ledger,
              ret |-> IF d.ok THEN {d.address} ELSE {}]

\* Variant: a missing blueprint is replaced by a default one.
create_default_blueprint(invoker, storage, ledger, owner_bytes) ==
    LET d == deploy_v2(ledger, FactoryId, owner_bytes,
                       IF StorageHas(storage, "wasm")
                       THEN StorageGet(storage, "wasm")
                       ELSE 1,
                       owner_bytes)
    IN  [ok |-> d.ok, err |-> d.err, ledger |-> d.ledger,
         ret |-> IF d.ok THEN {d.address} ELSE {}]

\* Variant: the caller, not the key it names, becomes the owner.
create_owner_invoker(invoker, storage, ledger, owner_bytes) ==
    IF ~StorageHas(storage, "wasm")
    THEN [ok |-> FALSE, err |-> "wasm_hash not set", ledger |-> ledger,
          ret |-> {}]
    ELSE LET d == deploy_v2(ledger, FactoryId, owner_bytes,
                            StorageGet(storage, "wasm"), invoker)
         IN  [ok |-> d.ok, err |-> d.err, ledger |-> d.ledger,
              ret |-> IF d.ok THEN {d.address} ELSE {}]

\* Variant: after deploying, create invokes the new instance's constructor
\* a second time, whose guard traps and rolls the deployment back.
create_double_init(invoker, storage, ledger, owner_bytes) ==
    IF ~StorageHas(storage, "wasm")
    THEN [ok |-> FALSE, err |-> "wasm_hash not set", ledger |-> ledger,
          ret |-> {}]
    ELSE LET d == deploy_v2(ledger, FactoryId, owner_bytes,
                            StorageGet(storage, "wasm"), owner_bytes)
             again == IF d.ok
                      THEN SimpleAccount_constructor(
                               d.ledger[d.address].storage, owner_bytes)
                      ELSE Trap(d.err, EmptyStorage)
         IN  [ok |-> d.ok /\ again.ok, err |-> again.err,
              ledger |-> IF d.ok /\ again.ok THEN d.ledger ELSE ledger,
              ret |-> IF d.ok /\ again.ok THEN {d.address} ELSE {}]

\* Outcome of create: the ledger it leaves and the address it returns.
create(invoker, storage, ledger, owner_bytes) ==
    IF ~StorageHas(storage, "wasm")
    THEN [ok |-> FALSE, err |-> "wasm_hash not set", ledger |-> ledger,
          ret |-> {}]
    ELSE LET d == deploy_v2(ledger, FactoryId, owner_bytes,
                            StorageGet(storage, "wasm"), owner_bytes)
         IN  [ok |-> d.ok, err |-> d.err, ledger |-> d.ledger,
              ret |-> IF d.ok THEN {d.address} ELSE {}]

wasm_hash(storage) ==
    IF ~StorageHas(storage, "wasm")
    THEN [ok |-> FALSE, err |-> "wasm_hash not set", ret |-> {}]
    ELSE [ok |-> TRUE, err |-> "", ret |-> {StorageGet(storage, "wasm")}]

\* Variant: the stored blueprint enters the derivation.
get_address_with_blueprint(signer_bytes) ==
    deployed_address(FactoryId,
                     IF StorageHas(factory, "wasm")
                     THEN signer_bytes + StorageGet(factory, "wasm")
                     ELSE signer_bytes)

\* Variant: the address is derived from a fixed salt, not the signer's key.
get_address_fixed_salt(signer_bytes) == deployed_address(FactoryId, 1)

get_address(signer_bytes) == deployed_address(FactoryId, signer_bytes)

\* The factory's storage is empty until its constructor runs.  One account
\* instance deployed outside the factory exists with its constructor not yet
\* run; the factory has deployed nothing.
Init ==
    /\ factory = EmptyStorage
    /\ contracts = [a \in {StandaloneAddr} |->
                       [wasm |-> 1, storage |-> EmptyStorage]]
    /\ last = [op |-> "none", ok |-> TRUE, err |-> ""]
    /\ returned = [k \in Keys |-> {}]
    /\ deployments = [k \in Keys |-> 0]

Bump(n) == IF n < MaxCount THEN n + 1 ELSE n

\* AccountFactory::__constructor(wasm_hash)
FactoryConstruct(b) ==
    LET r == AccountFactory_constructor(factory, b)
    IN  /\ factory' = r.storage
        /\ last' = [op |-> "factory_constructor", wasm_hash |-> b,
                    ok |-> r.ok, err |-> r.err]
        /\ UNCHANGED <<contracts, returned, deployments>>

\* AccountFactory::create(owner_bytes), submitted by caller c
Create(c, k) ==
    LET r == create(c, factory, contracts, k)
    IN  /\ contracts' = r.ledger
        /\ last' = [op |-> "create", caller |-> c, owner_bytes |-> k,
                    ok |-> r.ok, err |-> r.err, ret |-> r.ret]
        /\ deployments' = IF r.ok
                          THEN [deployments EXCEPT ![k] = Bump(@)]
                          ELSE deployments
        /\ UNCHANGED <<factory, returned>>

\* AccountFactory::wasm_hash()
WasmHash ==
    LET r == wasm_hash(factory)
    IN  /\ last' = [op |-> "wasm_hash", ok |-> r.ok, err |-> r.err,
                    ret |-> r.ret]
        /\ UNCHANGED <<factory, contracts, returned, deployments>>

\* AccountFactory::get_address(signer_bytes)
GetAddress(k) ==
    LET a == get_address(k)
    IN  /\ last' = [op |-> "get_address", signer_bytes |-> k, ok |-> TRUE,
                    err |-> "", ret |-> {a}]
        /\ returned' = [returned EXCEPT ![k] = @ \cup {a}]
        /\ UNCHANGED <<factory, contracts, deployments>>

\* SimpleAccount::__constructor(public_key) invoked on the instance at a
AccountConstruct(a, k) ==
    /\ a \in DOMAIN contracts
    /\ LET r == SimpleAccount_constructor(contracts[a].storage, k)
       IN  /\ contracts' = [contracts EXCEPT ![a].storage = r.storage]
           /\ last' = [op |-> "account_constructor", addr |-> a,
                       public_key |-> k, ok |-> r.ok, err |-> r.err]
    /\ UNCHANGED <<factory, returned, deployments>>

\* SimpleAccount::__check_auth(signature_payload, signature, auth_context)
\* invoked by the host on the instance at a
CheckAuth(a, p, sig, ctx) ==
    /\ a \in DOMAIN contracts
    /\ LET r == SimpleAccount_check_auth(contracts[a].storage, p, sig, ctx)
       IN  /\ contracts' = [contracts EXCEPT ![a].storage = r.storage]
           /\ last' = [op |-> "check_auth", addr |-> a,
                       signature_payload |-> p, signature |-> sig,
                       auth_context |-> ctx, ok |-> r.ok, err |-> r.err]
    /\ UNCHANGED <<factory, returned, deployments>>

\* The whole system: every entry point of both contracts.
Next ==
    \/ \E b \in Blueprints : FactoryConstruct(b)
    \/ \E c \in Callers, k \in Keys : Create(c, k)
    \/ WasmHash
    \/ \E k \in Keys : GetAddress(k)
    \/ \E a \in Addresses, k \in Keys : AccountConstruct(a, k)
    \/ \E a \in Addresses, p \in Payloads, sig \in Signatures,
          ctx \in Contexts : CheckAuth(a, p, sig, ctx)

Spec == Init /\ [][Next]_vars

\* The factory's side: every entry point that writes the factory's storage
\* or the ledger, and the factory's read accessors.  __check_auth, which
\* writes nothing, is left out.
NextFactory ==
    \/ \E b \in Blueprints : FactoryConstruct(b)
    \/ \E c \in Callers, k \in Keys : Create(c, k)
    \/ WasmHash
    \/ \E k \in Keys : GetAddress(k)
    \/ \E a \in Addresses, k \in Keys : AccountConstruct(a, k)

SpecFactory == Init /\ [][NextFactory]_vars

\* The accounts' side, from the state a deployed factory is in (its
\* constructor has stored the blueprint): instances come to exist through
\* create, get their owner from the constructor and are asked to authorize.
InitConstructed ==
    /\ factory = AccountFactory_constructor(EmptyStorage, 1).storage
    /\ contracts = [a \in {StandaloneAddr} |->
                       [wasm |-> 1, storage |-> EmptyStorage]]
    /\ last = [op |-> "none", ok |-> TRUE, err |-> ""]
    /\ returned = [k \in Keys |-> {}]
    /\ deployments = [k \in Keys |-> 0]

NextAccount ==
    \/ \E c \in Callers, k \in Keys : Create(c, k)
    \/ \E a \in Addresses, k \in Keys : AccountConstruct(a, k)
    \/ \E a \in Addresses, p \in Payloads, sig \in Signatures,
          ctx \in Contexts : CheckAuth(a, p, sig, ctx)

SpecAccount == InitConstructed /\ [][NextAccount]_vars

\* Both sides together, for the life of an instance: every entry point of
\* both contracts, with __check_auth asked about one payload in one context
\* and handed the genuine signature of each key, so that it accepts (the
\* owner's) and rejects (any other's).
NextLifecycle ==
    \/ \E b \in Blueprints : FactoryConstruct(b)
    \/ \E c \in Callers, k \in Keys : Create(c, k)
    \/ WasmHash
    \/ \E k \in Keys : GetAddress(k)
    \/ \E a \in Addresses, k \in Keys : AccountConstruct(a, k)
    \/ \E a \in Addresses, k \in Keys : CheckAuth(a, 1, sign(k, 1), 1)

SpecLifecycle == Init /\ [][NextLifecycle]_vars

\* ------------------------------------------------------------ vocabulary
Deployed(a) == a \in DOMAIN contracts

HasOwner(a) == Deployed(a) /\ StorageHas(contracts[a].storage, "Owner")

OwnerOf(a) == StorageGet(contracts[a].storage, "Owner")

\* ---------------------------------------------------------------- claims

\* C1: a successful create(k) deploys a new instance at, and returns, exactly
\* the address get_address(k) computes, which is also the only address any
\* get_address(k) call has returned.
CreateMatchesGetAddress ==
    [][(last'.op = "create" /\ last'.ok) =>
         LET k == last'.owner_bytes
             a == get_address(k)
         IN  /\ last'.ret = {a}
             /\ a \notin DOMAIN contracts
             /\ DOMAIN contracts' = (DOMAIN contracts) \cup {a}
             /\ \A x \in DOMAIN contracts : contracts'[x] = contracts[x]
             /\ returned[k] \subseteq last'.ret]_vars

\* C1 witness: create for the last key succeeded after get_address had
\* predicted its address.
CreateMatchesGetAddressWitness ==
    /\ last.op = "create"
    /\ last.ok
    /\ last.owner_bytes = NumKeys
    /\ returned[NumKeys] = last.ret
    /\ \A a \in last.ret : Deployed(a)

\* C2: once create(k) has succeeded, every later create(k) traps and leaves
\* the blueprint, the ledger and the existing instance's owner as they were;
\* the blueprint is still readable.
CreateTwiceFails ==
    [][\A k \in Keys :
         (deployments[k] > 0 /\ last'.op = "create" /\ last'.owner_bytes = k)
           => /\ ~last'.ok
              /\ last'.ret = {}
              /\ factory' = factory
              /\ wasm_hash(factory').ok
              /\ contracts' = contracts
              /\ HasOwner(get_address(k))
              /\ OwnerOf(get_address(k)) = k]_vars

\* C2 witness: a create for an already deployed key trapped on the occupied
\* address while another key's address is still free.
CreateTwiceFailsWitness ==
    /\ last.op = "create"
    /\ ~last.ok
    /\ last.err = "contract already exists"
    /\ Deployed(get_address(last.owner_bytes))
    /\ \E k \in Keys : ~Deployed(get_address(k))

\* C3: once an instance stores an owner, every further constructor call on
\* it traps, for any key, and the stored owner stays.
OwnerWriteOnce ==
    [][\A a \in DOMAIN contracts :
         (HasOwner(a) /\ last'.op = "account_constructor" /\ last'.addr = a)
           => /\ ~last'.ok
              /\ last'.err = "owner is already set"
              /\ contracts' = contracts]_vars

\* C3 witness: the standalone instance, initialized by its constructor,
\* rejected a constructor call carrying a different key.
OwnerWriteOnceWitness ==
    /\ last.op = "account_constructor"
    /\ last.addr = StandaloneAddr
    /\ ~last.ok
    /\ HasOwner(StandaloneAddr)
    /\ OwnerOf(StandaloneAddr) # last.public_key

\* C4: on an instance with owner k, check_auth accepts exactly the genuine
\* signature of the presented payload under k: it rejects a signature over
\* another payload, a signature by another key and an altered signature.
AuthCorrect ==
    [][(last'.op = "check_auth" /\ HasOwner(last'.addr)) =>
         LET k == OwnerOf(last'.addr)
             p == last'.signature_payload
             sig == last'.signature
         IN  /\ last'.ok <=> (sig = sign(k, p))
             /\ sig.msg # p => ~last'.ok
             /\ sig.signer # k => ~last'.ok
             /\ sig.altered => ~last'.ok]_vars

\* C4 witness: an instance owned by one key rejected a genuine signature of
\* the presented payload made by another key.
AuthCorrectWitness ==
    /\ last.op = "check_auth"
    /\ HasOwner(last.addr)
    /\ ~last.ok
    /\ last.signature = sign(last.signature.signer, last.signature_payload)
    /\ last.signature.signer # OwnerOf(last.addr)

\* C5: the verdict of a check_auth call is the verdict the same instance
\* state gives the same payload and signature under every other context.
ContextIrrelevant ==
    [][last'.op = "check_auth" =>
         \A ctx \in Contexts :
            SimpleAccount_check_auth(contracts[last'.addr].storage,
                                     last'.signature_payload,
                                     last'.signature, ctx).ok = last'.ok]_vars

\* C5 witness: an accepted check_auth call made with the last context.
ContextIrrelevantWitness ==
    /\ last.op = "check_auth"
    /\ last.ok
    /\ last.auth_context = NumContexts

\* C6: over every sequence of create calls by any callers, at most one
\* create per key succeeds, and the derived address is allocated exactly when
\* one did, with that key stored as the instance's owner.
AtMostOneDeployment ==
    \A k \in Keys :
       /\ deployments[k] <= 1
       /\ (deployments[k] = 1) <=> Deployed(get_address(k))
       /\ Deployed(get_address(k)) =>
            /\ HasOwner(get_address(k))
            /\ OwnerOf(get_address(k)) = k

\* C6 witness: every key is deployed once and a further create by the last
\* caller has just failed.
AtMostOneDeploymentWitness ==
    /\ \A k \in Keys : deployments[k] = 1
    /\ last.op = "create"
    /\ last.caller = NumCallers
    /\ ~last.ok

\* C7 as stated: a constructor call on a factory whose blueprint is set
\* traps, and the stored blueprint is never replaced.
BlueprintWriteOnce ==
    [][StorageHas(factory, "wasm") =>
         /\ factory' = factory
         /\ last'.op = "factory_constructor" => ~last'.ok]_vars

\* C7 amended: the blueprint changes only in a factory constructor call,
\* which never traps and leaves the blueprint it was given; once set the
\* blueprint stays set, and wasm_hash returns the stored one.
BlueprintSetOnlyByConstructor ==
    [][/\ factory' # factory => last'.op = "factory_constructor"
       /\ last'.op = "factory_constructor" =>
            /\ last'.ok
            /\ wasm_hash(factory') =
                 [ok |-> TRUE, err |-> "", ret |-> {last'.wasm_hash}]
       /\ StorageHas(factory, "wasm") => StorageHas(factory', "wasm")
       /\ last'.op = "wasm_hash" =>
            /\ last'.ok = StorageHas(factory, "wasm")
            /\ last'.ok => last'.ret = {StorageGet(factory, "wasm")}]_vars

\* C7 witness: the constructor stored a blueprint other than the one an
\* instance was deployed with earlier.
BlueprintSetOnlyByConstructorWitness ==
    /\ last.op = "factory_constructor"
    /\ last.ok
    /\ \E k \in Keys :
          /\ Deployed(get_address(k))
          /\ contracts[get_address(k)].wasm # StorageGet(factory, "wasm")

\* C8: check_auth on an instance without a stored owner traps for every
\* payload, signature and context, and the instance stays without an owner.
NoOwnerRejects ==
    [][(last'.op = "check_auth" /\ ~HasOwner(last'.addr)) =>
         /\ ~last'.ok
         /\ contracts' = contracts
         /\ ~StorageHas(contracts'[last'.addr].storage, "Owner")]_vars

\* C8 witness: an instance without an owner rejected a genuine signature of
\* the presented payload.
NoOwnerRejectsWitness ==
    /\ last.op = "check_auth"
    /\ ~HasOwner(last.addr)
    /\ ~last.ok
    /\ last.signature = sign(last.signature.signer, last.signature_payload)

\* C9: get_address changes neither the blueprint nor the ledger, and all
\* the calls made for one key, in whatever states, returned one address.
GetAddressPure ==
    /\ [](\A k \in Keys : Cardinality(returned[k]) <= 1)
    /\ [][last'.op = "get_address" =>
            /\ factory' = factory
            /\ contracts' = contracts
            /\ deployments' = deployments
            /\ last'.ret = {get_address(last'.signer_bytes)}]_vars

\* C9 witness: get_address answered for a key that is deployed while the
\* address of another key is free.
GetAddressPureWitness ==
    /\ last.op = "get_address"
    /\ Cardinality(returned[last.signer_bytes]) = 1
    /\ \A a \in last.ret : Deployed(a)
    /\ \E k \in Keys : returned[k] # {} /\ ~Deployed(get_address(k))

\* C10: the outcome of a create call (trap or not, returned address, ledger
\* left behind) is the outcome the same call has from the same state for
\* every other caller.
CreatePermissionless ==
    [][last'.op = "create" =>
         \A c \in Callers :
            LET r == create(c, factory, contracts, last'.owner_bytes)
            IN  /\ r.ok = last'.ok
                /\ r.err = last'.err
                /\ r.ret = last'.ret
                /\ r.ledger = contracts'
                /\ factory' = factory]_vars

\* C10 witness: a create submitted by the last caller succeeded, deploying
\* an instance owned by the key it named.
CreatePermissionlessWitness ==
    /\ last.op = "create"
    /\ last.caller = NumCallers
    /\ last.ok
    /\ \A a \in last.ret : HasOwner(a) /\ OwnerOf(a) = last.owner_bytes

\* C11: on a factory without a stored blueprint, create and wasm_hash trap
\* with "wasm_hash not set"; the trapping create deploys nothing and the
\* address derived for its key stays unoccupied.
MissingBlueprintTraps ==
    [][~StorageHas(factory, "wasm") =>
         /\ last'.op = "create" =>
              /\ ~last'.ok
              /\ last'.err = "wasm_hash not set"
              /\ last'.ret = {}
              /\ contracts' = contracts
              /\ deployments' = deployments
              /\ get_address(last'.owner_bytes) \notin DOMAIN contracts'
         /\ last'.op = "wasm_hash" =>
              /\ ~last'.ok
              /\ last'.err = "wasm_hash not set"
              /\ last'.ret = {}]_vars

\* C11 witness: a create trapped on the missing blueprint, after get_address
\* had predicted the address that is still unoccupied.
MissingBlueprintTrapsWitness ==
    /\ ~StorageHas(factory, "wasm")
    /\ last.op = "create"
    /\ ~last.ok
    /\ last.err = "wasm_hash not set"
    /\ returned[last.owner_bytes] = {get_address(last.owner_bytes)}
    /\ ~Deployed(get_address(last.owner_bytes))

\* C12: distinct keys have distinct addresses, so a create that traps on an
\* occupied address does so only because its own key was created before,
\* and a successful create(k1) leaves the instance, or the absence of one,
\* at the address of every other key as it was.
KeysIndependent ==
    /\ [](\A k1, k2 \in Keys : k1 # k2 => get_address(k1) # get_address(k2))
    /\ [][last'.op = "create" =>
            LET k1 == last'.owner_bytes
            IN  /\ last'.err = "contract already exists" =>
                      deployments[k1] > 0
                /\ \A k2 \in Keys \ {k1} :
                      LET a2 == get_address(k2)
                      IN  /\ (a2 \in DOMAIN contracts') <=>
                                (a2 \in DOMAIN contracts)
                          /\ a2 \in DOMAIN contracts =>
                                contracts'[a2] = contracts[a2]]_vars

\* C12 witness: create succeeded for the last key while the first key was
\* already deployed under another blueprint, and both instances stand.
KeysIndependentWitness ==
    /\ last.op = "create"
    /\ last.ok
    /\ last.owner_bytes = NumKeys
    /\ Deployed(get_address(1))
    /\ OwnerOf(get_address(1)) = 1
    /\ OwnerOf(get_address(NumKeys)) = NumKeys
    /\ contracts[get_address(1)].wasm # contracts[get_address(NumKeys)].wasm

\* C13: every instance the factory has deployed sits at the address of
\* one key, stores an owner, and that owner is the key its address was
\* derived from.
OwnerMatchesSalt ==
    \A a \in DOMAIN contracts :
       a.deployer = FactoryId =>
          /\ a.salt \in Keys
          /\ a = get_address(a.salt)
          /\ StorageHas(contracts[a].storage, "Owner")
          /\ StorageGet(contracts[a].storage, "Owner") = a.salt

\* C13 witness: every key is deployed, and a constructor call carrying
\* another key has just been turned away by a factory-deployed instance.
OwnerMatchesSaltWitness ==
    /\ \A k \in Keys : Deployed(get_address(k))
    /\ last.op = "account_constructor"
    /\ ~last.ok
    /\ last.addr.deployer = FactoryId
    /\ last.public_key # last.addr.salt
    /\ OwnerOf(last.addr) = last.addr.salt

\* C14: an instance that stores an owner keeps existing and keeps that
\* owner across every step: check_auth, accepting or rejecting, the
\* constructors and every factory entry point leave it as it is.
ActiveIsTerminal ==
    [][\A a \in DOMAIN contracts :
         StorageHas(contracts[a].storage, "Owner") =>
            /\ a \in DOMAIN contracts'
            /\ StorageHas(contracts'[a].storage, "Owner")
            /\ StorageGet(contracts'[a].storage, "Owner") =
                 StorageGet(contracts[a].storage, "Owner")
            /\ last'.op \in {"check_auth", "create", "factory_constructor",
                              "wasm_hash", "get_address"} =>
                 contracts'[a] = contracts[a]]_vars

\* C14 witness: the standalone instance, owned since its constructor ran,
\* has just accepted a check_auth while the factory has deployed every key
\* and had its blueprint replaced.
ActiveIsTerminalWitness ==
    /\ last.op = "check_auth"
    /\ last.ok
    /\ last.addr = StandaloneAddr
    /\ OwnerOf(StandaloneAddr) = last.signature.signer
    /\ \A k \in Keys : Deployed(get_address(k))
    /\ \E k \in Keys :
          contracts[get_address(k)].wasm # StorageGet(factory, "wasm")

\* C15: a create call succeeds exactly when the blueprint is stored and no
\* instance occupies the address derived for its key; when it traps, it is
\* on the missing blueprint or on the occupied address, never on the new
\* instance's own re-initialization guard.
CreateFailsOnlyForTwoReasons ==
    [][last'.op = "create" =>
         LET a == get_address(last'.owner_bytes)
         IN  /\ last'.ok <=>
                  (StorageHas(factory, "wasm") /\ a \notin DOMAIN contracts)
             /\ ~last'.ok =>
                  /\ last'.err \in {"wasm_hash not set",
                                    "contract already exists"}
                  /\ (last'.err = "wasm_hash not set") <=>
                       ~StorageHas(factory, "wasm")
             /\ last'.err # "owner is already set"
             /\ last'.ok =>
                  contracts'[a].storage =
                    SimpleAccount_constructor(EmptyStorage,
                                              last'.owner_bytes).storage]_vars

\* C15 witness: create succeeded for the first key at its free address,
\* while the last key's address is occupied and the standalone instance
\* already stores an owner.
CreateFailsOnlyForTwoReasonsWitness ==
    /\ last.op = "create"
    /\ last.ok
    /\ last.owner_bytes = 1
    /\ NumKeys # 1
    /\ Deployed(get_address(NumKeys))
    /\ HasOwner(StandaloneAddr)

====
